---- MODULE Spec2Model ----
(***************************************************************************)
(* Verification model of the Voyager explorer excerpt:                     *)
(*   - PrivateLoadingManager / CVAssetLoader  (the "loading" busy output)  *)
(*   - Derivative                             (load, addAsset, dispose,    *)
(*                                             toData)                     *)
(*   - CVScene                                (aggregate bounding box)     *)
(* Each component has its own specification over the shared variables:     *)
(*   SpecLoading, Spec (the Derivative), SpecScene.                        *)
(***************************************************************************)
EXTENDS Integers, Sequences, FiniteSets, TLC

VARIABLES
    \* ---- THREE.LoadingManager state behind PrivateLoadingManager
    items,          \* per tracked url: "idle" | "loading" | "loaded" | "failed"
    itemsLoaded,    \* THREE.LoadingManager.itemsLoaded
    itemsTotal,     \* THREE.LoadingManager.itemsTotal
    isLoading,      \* THREE.LoadingManager.isLoading
    loading,        \* CVAssetLoader.outs.loading
    lmStep,         \* the manager callbacks run by the last event, in order
    \* ---- Derivative fields
    id,             \* Derivative.id
    usage,          \* Derivative.usage   (EDerivativeUsage value)
    quality,        \* Derivative.quality (EDerivativeQuality value)
    assets,         \* Derivative.assets  (sequence of Asset)
    model,          \* Derivative.model   (null, a loaded object or a Mesh)
    boundingBox,    \* Derivative.boundingBox
    \* ---- the load() call in progress and its collaborators
    pc,             \* "idle" | "model" | "geometry" | "textures"
    promise,        \* the value returned by the last load() call
    imageAssets,    \* load()'s local imageAssets (captured at the call)
    tex,            \* per requested texture: "pending" | "loaded" | "failed"
    requests,       \* loader requests issued by the last load() call
    released,       \* dispose() calls received by each resource of this.model
    srcData,        \* the persisted data the Derivative was constructed from
    step,           \* the operation or callback that ran last
    \* ---- CVScene and the graph's CVModel2 components
    sceneState,     \* "none" (not created yet) | "created" | "disposed"
    graphModels,    \* the CVModel2 components of the graph (this.models)
    removedModels,  \* CVModel2 components removed from the graph
    object3D,       \* per model: the extent of model.object3D
    graphListener,  \* onModelComponent is subscribed to graph.components
    boxListeners,   \* models whose "bounding-box" event calls the scene
    linkedUnits,    \* models whose globalUnits is linked from ins.units
    units,          \* ins.units
    modelBoundingBox, \* CVScene._modelBoundingBox
    sceneEvent,     \* the last scene event, and what the scene did with it
    \* ---- CVAssetLoader.loadDocumentData
    docCalls,       \* the loadDocumentData calls made so far, in order
    \* ---- ContentView (a DocumentView) and what it subscribes to
    viewConnected,  \* the element is connected
    providerActive, \* CVDocumentProvider.activeComponent (0: none)
    activeDocument, \* DocumentView.activeDocument (0: null)
    activeScene,    \* DocumentView.activeScene (0: null)
    providerListeners, \* the view's listeners on the provider's "active-component"
    busyListeners,  \* the view's listeners on assetLoader.outs.busy
    readerListeners, \* per scene: the view's listeners on reader.ins.visible / position
    readerIns,      \* per scene: the values of reader.ins.visible / position
    busy,           \* assetLoader.outs.busy
    viewStep        \* the last view event, and whether it reached the view

lmVars == <<items, itemsLoaded, itemsTotal, isLoading, loading, lmStep>>

dVars == <<id, usage, quality, assets, model, boundingBox, pc, promise,
           imageAssets, tex, requests, released, srcData, step>>

sVars == <<sceneState, graphModels, removedModels, object3D, graphListener,
           boxListeners, linkedUnits, units, modelBoundingBox, sceneEvent>>

\* The variables of the other components, which a component's steps leave
\* alone.
docVars == <<docCalls>>

cvVars == <<viewConnected, providerActive, activeDocument, activeScene,
            providerListeners, busyListeners, readerListeners, readerIns,
            busy, viewStep>>

notLoading == <<dVars, sVars, docVars, cvVars>>
notDerivative == <<lmVars, sVars, docVars, cvVars>>
notScene == <<lmVars, dVars, docVars, cvVars>>
notDocument == <<lmVars, dVars, sVars, cvVars>>
notView == <<lmVars, dVars, sVars, docVars>>

----------------------------------------------------------------------------
(* Bounds *)

MaxItems == 4
MaxAssets == 3
MaxDisposes == 2
MaxModels == 2
MaxDocCalls == 2
MaxDocuments == 3

----------------------------------------------------------------------------
(* PrivateLoadingManager (CVAssetLoader.ts 135-183)                        *)

Urls == 1..MaxItems

\* onLoadingStart: this.assetLoader.outs.loading.setValue(true)
onLoadingStart(out) == TRUE

\* onLoadingProgress: logs only, the output is untouched
onLoadingProgress(out) == out

\* (variant of onLoadingCompleted: the output is left as it is)
onLoadingCompletedKeeps(out) == out

\* onLoadingCompleted: this.assetLoader.outs.loading.setValue(false)
onLoadingCompleted(out) == FALSE

\* onLoadingError: this.assetLoader.outs.loading.setValue(false)
onLoadingError(out) == FALSE

\* Number of started loads that have neither completed nor errored.
Outstanding == Cardinality({u \in Urls : items[u] = "loading"})

LMStart ==
    /\ items = [u \in Urls |-> "idle"]
    /\ itemsLoaded = 0
    /\ itemsTotal = 0
    /\ isLoading = FALSE
    /\ loading = FALSE
    /\ lmStep = <<>>

\* A loader begins a request: manager.itemStart(url).
\*   itemsTotal++; if (isLoading === false) onStart(...); isLoading = true
ItemStart(u) ==
    /\ items[u] = "idle"
    /\ items' = [items EXCEPT ![u] = "loading"]
    /\ itemsTotal' = itemsTotal + 1
    /\ loading' = IF isLoading = FALSE THEN onLoadingStart(loading) ELSE loading
    /\ lmStep' = IF isLoading = FALSE THEN <<"onStart">> ELSE <<>>
    /\ isLoading' = TRUE
    /\ UNCHANGED itemsLoaded
    /\ UNCHANGED notLoading

\* A request succeeds: manager.itemEnd(url).
\*   itemsLoaded++; onProgress(...);
\*   if (itemsLoaded === itemsTotal) { isLoading = false; onLoad() }
ItemEnd(u) ==
    /\ items[u] = "loading"
    /\ items' = [items EXCEPT ![u] = "loaded"]
    /\ itemsLoaded' = itemsLoaded + 1
    /\ LET afterProgress == onLoadingProgress(loading)
           last == (itemsLoaded + 1 = itemsTotal)
       IN  /\ loading' = IF last THEN onLoadingCompleted(afterProgress)
                                 ELSE afterProgress
           /\ isLoading' = IF last THEN FALSE ELSE isLoading
           /\ lmStep' = IF last THEN <<"onProgress", "onLoad">>
                                ELSE <<"onProgress">>
    /\ UNCHANGED itemsTotal
    /\ UNCHANGED notLoading

\* A request fails: the loader reports manager.itemError(url) and then
\* closes the item with manager.itemEnd(url).
ItemError(u) ==
    /\ items[u] = "loading"
    /\ items' = [items EXCEPT ![u] = "failed"]
    /\ itemsLoaded' = itemsLoaded + 1
    /\ LET afterError == onLoadingError(loading)
           afterProgress == onLoadingProgress(afterError)
           last == (itemsLoaded + 1 = itemsTotal)
       IN  /\ loading' = IF last THEN onLoadingCompleted(afterProgress)
                                 ELSE afterProgress
           /\ isLoading' = IF last THEN FALSE ELSE isLoading
           /\ lmStep' = IF last THEN <<"onError", "onProgress", "onLoad">>
                                ELSE <<"onError", "onProgress">>
    /\ UNCHANGED itemsTotal
    /\ UNCHANGED notLoading

LoadingNext ==
    \/ \E u \in Urls : ItemStart(u)
    \/ \E u \in Urls : ItemEnd(u)
    \/ \E u \in Urls : ItemError(u)

----------------------------------------------------------------------------
(* Derivative (part_002 137-339): enumerations and values                  *)

\* export enum EDerivativeUsage { Web, Print, Editorial }
EDerivativeUsage == <<"Web", "Print", "Editorial">>

\* export enum EDerivativeQuality { Thumb, Low, Medium, High, Highest, LOD, Stream }
EDerivativeQuality == <<"Thumb", "Low", "Medium", "High", "Highest", "LOD", "Stream">>

\* EAssetType and EMapType are imported from ./Asset; the members used here
\* are those load(), addAsset() and assignTextures() refer to.
EAssetType == <<"Model", "Geometry", "Image", "Texture">>
EMapType == <<"Color", "Occlusion", "Emissive", "MetallicRoughness", "Normal">>

\* A TypeScript numeric enum E maps each name to its index (E[name]) and each
\* index back to its name (E[index]).
EnumValue(E, name) == CHOOSE v \in 0..(Len(E) - 1) : E[v + 1] = name
EnumName(E, v) == E[v + 1]

\* JavaScript undefined, where a number is expected (asset.mapType, textures[i])
undefined == -1

\* A material map slot as UberMaterial constructs it (null)
NoTexture == 0

AssetType(name) == EnumValue(EAssetType, name)
MapType(name) == EnumValue(EMapType, name)

\* THREE.Box3 over one axis: new Box3() and makeEmpty() give the empty box.
EmptyBox == [empty |-> TRUE, min |-> 0, max |-> 0]
Box(lo, hi) == [empty |-> FALSE, min |-> lo, max |-> hi]
\* (variant of makeEmpty: the box is left as it is)
makeEmptyKeeps(box) == box
\* box.makeEmpty()
makeEmpty(box) == EmptyBox

Min(a, b) == IF a <= b THEN a ELSE b
Max(a, b) == IF a >= b THEN a ELSE b

\* box.union(other)
UnionBox(box, other) ==
    IF other.empty THEN box
    ELSE IF box.empty THEN other
    ELSE Box(Min(box.min, other.min), Max(box.max, other.max))

\* box.expandByObject(object): the box grown by the object's own extent
expandByObject(box, object) == UnionBox(box, object.box)

\* The six texture slots of a material, as the constructor leaves them.
MapSlots == {"map", "aoMap", "emissiveMap", "metalnessMap", "roughnessMap", "normalMap"}
UberMaterial ==
    [map |-> NoTexture, aoMap |-> NoTexture, emissiveMap |-> NoTexture,
     metalnessMap |-> NoTexture, roughnessMap |-> NoTexture,
     normalMap |-> NoTexture,
     color |-> "default", roughness |-> "default", metalness |-> "default"]

\* JavaScript truthiness of a slot value: a texture object is truthy, null
\* and undefined are not.
Truthy(v) == v > 0

\* this.model = null
NullModel == [kind |-> "null", box |-> EmptyBox, hasMesh |-> FALSE,
              material |-> UberMaterial]

\* new THREE.Mesh(geometry, new UberMaterial())
Mesh(geometry, material) ==
    [kind |-> "mesh", box |-> geometry, hasMesh |-> TRUE,
     material |-> material]

\* What the model loader can resolve with: a mesh with two textures of its
\* own, and an object without any mesh.
ModelResults ==
    { [box |-> Box(0, 2), hasMesh |-> TRUE,
       material |-> [UberMaterial EXCEPT !.map = 1, !.normalMap = 2]],
      [box |-> EmptyBox, hasMesh |-> FALSE, material |-> UberMaterial] }

\* What the geometry loader can resolve with (the geometry's extent).
GeometryResults == { Box(0, 1), Box(1, 3) }

LoadedObject(result) ==
    [kind |-> "object", box |-> result.box,
     hasMesh |-> result.hasMesh, material |-> result.material]

----------------------------------------------------------------------------
(* Asset (imported from ./Asset) and the persisted data                    *)

\* new Asset(data): uri kept, type and mapType looked up in their enums
AssetFromData(data) ==
    [uri |-> data.uri,
     type |-> EnumValue(EAssetType, data.type),
     mapType |-> IF data.mapType = "undefined" THEN undefined
                 ELSE EnumValue(EMapType, data.mapType)]

\* asset.toData()
AssetToData(asset) ==
    [uri |-> asset.uri,
     type |-> EnumName(EAssetType, asset.type),
     mapType |-> IF asset.mapType = undefined THEN "undefined"
                 ELSE EnumName(EMapType, asset.mapType)]

\* const asset = new Asset()
NewAsset == [uri |-> "", type |-> undefined, mapType |-> undefined]

\* Uris of persisted and appended assets, by position in the list.
Uris == <<"a1", "a2", "a3", "a4", "a5", "a6">>

\* The kinds of persisted asset entries the lists are built from: models,
\* geometries, and images for the base-color map, the packed
\* metallic-roughness map and one single-slot map.  (Images without a map
\* type and Texture-typed assets come in through addAsset.)
AssetKinds ==
    { [type |-> "Model", mapType |-> "undefined"],
      [type |-> "Geometry", mapType |-> "undefined"],
      [type |-> "Image", mapType |-> "Color"],
      [type |-> "Image", mapType |-> "MetallicRoughness"],
      [type |-> "Image", mapType |-> "Normal"] }

AssetData(list) ==
    [i \in 1..Len(list) |-> [uri |-> Uris[i], type |-> list[i].type,
                             mapType |-> list[i].mapType]]

\* A geometry with images for the two remaining single-slot maps.
OtherMapsList ==
    <<[type |-> "Geometry", mapType |-> "undefined"],
      [type |-> "Image", mapType |-> "Occlusion"],
      [type |-> "Image", mapType |-> "Emissive"]>>

\* Persisted asset lists: every list of up to MaxAssets entries of the
\* kinds above, and the list with the other two maps.
AssetDataLists ==
    UNION { { AssetData(f) : f \in [1..n -> AssetKinds] } : n \in 0..MaxAssets }
    \cup { AssetData(OtherMapsList) }

----------------------------------------------------------------------------
(* Derivative: construction and pure methods                               *)

\* Persisted derivative data: usage and quality by name, and asset entries.
DerivativeData(usages, qualities, lists) ==
    [usage : usages, quality : qualities, assets : lists]

\* constructor(usage, quality, assetData): the fields after construction
Derivative(u, q, assetData) ==
    [id |-> "", usage |-> u, quality |-> q,
     assets |-> [i \in 1..Len(assetData) |-> AssetFromData(assetData[i])],
     model |-> NullModel, boundingBox |-> EmptyBox]

\* A Derivative created from persisted data: the names are looked up in the
\* enums and handed to the constructor; no load() or dispose() happened yet.
Constructed(data) ==
    LET d == Derivative(EnumValue(EDerivativeUsage, data.usage),
                        EnumValue(EDerivativeQuality, data.quality),
                        data.assets)
    IN  /\ srcData = data
        /\ id = d.id
        /\ usage = d.usage
        /\ quality = d.quality
        /\ assets = d.assets
        /\ model = d.model
        /\ boundingBox = d.boundingBox
        /\ pc = "idle"
        /\ promise = [state |-> "none", value |-> "none"]
        /\ imageAssets = <<>>
        /\ tex = <<>>
        /\ requests = <<>>
        /\ released = [r \in 0..MaxAssets |-> 0]
        /\ step = [op |-> "constructor", uri |-> "", threw |-> FALSE,
                   result |-> "none", args |-> <<>>]

\* (variant: the last asset of the type instead of the first)
findLastAsset(list, type) ==
    IF \E i \in 1..Len(list) : list[i].type = type
    THEN CHOOSE i \in 1..Len(list) :
            /\ list[i].type = type
            /\ \A j \in (i + 1)..Len(list) : list[j].type # type
    ELSE 0

\* (variant of findAsset: falls back to the first asset of the list)
findAssetOrFirst(list, type) ==
    IF \E i \in 1..Len(list) : list[i].type = type
    THEN CHOOSE i \in 1..Len(list) :
            /\ list[i].type = type
            /\ \A j \in 1..(i - 1) : list[j].type # type
    ELSE IF list = <<>> THEN 0 ELSE 1

\* this.assets.find(asset => asset.type === type): position of the first
\* asset of that type, 0 when there is none (find returns undefined)
findAsset(list, type) ==
    IF \E i \in 1..Len(list) : list[i].type = type
    THEN CHOOSE i \in 1..Len(list) :
            /\ list[i].type = type
            /\ \A j \in 1..(i - 1) : list[j].type # type
    ELSE 0

\* this.assets.filter(asset => asset.type === type)
findAssets(list, type) == SelectSeq(list, LAMBDA a : a.type = type)

\* (variant: the usage name looked up in the quality enum)
toDataWrongEnum ==
    [usage |-> EnumName(EDerivativeQuality, usage),
     quality |-> EnumName(EDerivativeQuality, quality),
     assets |-> [i \in 1..Len(assets) |-> AssetToData(assets[i])]]

\* toData()
toData ==
    [usage |-> EnumName(EDerivativeUsage, usage),
     quality |-> EnumName(EDerivativeQuality, quality),
     assets |-> [i \in 1..Len(assets) |-> AssetToData(assets[i])]]

\* (variant: the packed map goes to the metalness slot only)
assignTextureMetalnessOnly(asset, texture, material) ==
    CASE asset.mapType = MapType("Color") ->
            [material EXCEPT !.map = texture]
      [] asset.mapType = MapType("Occlusion") ->
            [material EXCEPT !.aoMap = texture]
      [] asset.mapType = MapType("Emissive") ->
            [material EXCEPT !.emissiveMap = texture]
      [] asset.mapType = MapType("MetallicRoughness") ->
            [material EXCEPT !.metalnessMap = texture]
      [] asset.mapType = MapType("Normal") ->
            [material EXCEPT !.normalMap = texture]
      [] OTHER -> material

\* One iteration of assignTextures' loop: the switch on asset.mapType
assignTexture(asset, texture, material) ==
    CASE asset.mapType = MapType("Color") ->
            [material EXCEPT !.map = texture]
      [] asset.mapType = MapType("Occlusion") ->
            [material EXCEPT !.aoMap = texture]
      [] asset.mapType = MapType("Emissive") ->
            [material EXCEPT !.emissiveMap = texture]
      [] asset.mapType = MapType("MetallicRoughness") ->
            [material EXCEPT !.metalnessMap = texture, !.roughnessMap = texture]
      [] asset.mapType = MapType("Normal") ->
            [material EXCEPT !.normalMap = texture]
      [] OTHER -> material

RECURSIVE assignTexturesFrom(_, _, _, _)
assignTexturesFrom(i, list, textures, material) ==
    IF i > Len(list) THEN material
    ELSE assignTexturesFrom(i + 1, list, textures,
            assignTexture(list[i],
                          IF i <= Len(textures) THEN textures[i] ELSE undefined,
                          material))

\* assignTextures(assets, textures, material): for (i = 0; i < assets.length; ++i)
assignTextures(list, textures, material) ==
    assignTexturesFrom(1, list, textures, material)

\* (variant: the constants applied whatever the base-color map)
applyFallbackAlways(material) ==
    [material EXCEPT !.color = "0.5", !.roughness = "0.8", !.metalness = "0"]

\* if (!material.map) { color.setScalar(0.5); roughness = 0.8; metalness = 0 }
applyFallback(material) ==
    IF ~Truthy(material.map)
    THEN [material EXCEPT !.color = "0.5", !.roughness = "0.8", !.metalness = "0"]
    ELSE material

\* The last .then of the geometry path, run with the joined textures.
texturesThen(mesh, textures) ==
    [mesh EXCEPT !.material =
        applyFallback(assignTextures(imageAssets, textures, mesh.material))]

\* (variant: the handler hands on a texture that did load)
catchTextureErrorKeepsLoaded == [rejects |-> FALSE, textures |-> <<1>>]

\* (variant: the handler rethrows, so the chain goes on rejected)
catchTextureErrorRethrows == [rejects |-> TRUE, textures |-> <<>>]

\* .catch(error => { console.warn(...); return []; }): the handler returns,
\* so the chain goes on fulfilled with no textures.
catchTextureError == [rejects |-> FALSE, textures |-> <<>>]

\* One resource receives dispose()
Release(rel, r) == [rel EXCEPT ![r] = @ + 1]
ReleaseIf(rel, v) == IF Truthy(v) THEN Release(rel, v) ELSE rel

\* disposeMesh(mesh): geometry, then each map slot that is set
disposeMesh(mesh, rel) ==
    LET m == mesh.material
        r0 == Release(rel, 0)
        r1 == ReleaseIf(r0, m.map)
        r2 == ReleaseIf(r1, m.aoMap)
        r3 == ReleaseIf(r2, m.emissiveMap)
        r4 == ReleaseIf(r3, m.metalnessMap)
        r5 == ReleaseIf(r4, m.roughnessMap)
    IN  ReleaseIf(r5, m.normalMap)

\* (variant of dispose: this.model is not checked)
disposeUnguarded(object, rel) == disposeMesh(object, rel)

\* dispose(): if (this.model) traverse, disposeMesh on every mesh
dispose(object, rel) ==
    IF object.kind # "null" /\ object.hasMesh THEN disposeMesh(object, rel)
    ELSE rel

\* (variant: the map type is recorded whatever the asset type)
addAssetAnyMapType(list, uri, type, mapType) ==
    IF uri = ""
    THEN [threw |-> TRUE, assets |-> list]
    ELSE LET a0 == [NewAsset EXCEPT !.uri = uri, !.type = type]
             a1 == IF mapType # undefined
                   THEN [a0 EXCEPT !.mapType = mapType] ELSE a0
         IN  [threw |-> FALSE, assets |-> Append(list, a1)]

\* (variant: no check of the uri)
addAssetUnchecked(list, uri, type, mapType) ==
    LET a0 == [NewAsset EXCEPT !.uri = uri, !.type = type]
        a1 == IF type = AssetType("Texture") /\ mapType # undefined
              THEN [a0 EXCEPT !.mapType = mapType] ELSE a0
    IN  [threw |-> FALSE, assets |-> Append(list, a1)]

\* addAsset(uri, type, mapType): the outcome for the given asset list
addAsset(list, uri, type, mapType) ==
    IF uri = ""
    THEN [threw |-> TRUE, assets |-> list]
    ELSE LET a0 == [NewAsset EXCEPT !.uri = uri, !.type = type]
             a1 == IF type = AssetType("Texture") /\ mapType # undefined
                   THEN [a0 EXCEPT !.mapType = mapType] ELSE a0
         IN  [threw |-> FALSE, assets |-> Append(list, a1)]

----------------------------------------------------------------------------
(* Derivative: operations and loader callbacks                             *)

Settled(state, value) == [state |-> state, value |-> value]
Op(name) ==
    [op |-> name, uri |-> "", threw |-> FALSE, result |-> "none", args |-> <<>>]
NoReleases == [r \in 0..MaxAssets |-> 0]
Request(loader, asset) == [loader |-> loader, uri |-> asset.uri]

\* load(): picks the path and issues the first request.  A second load()
\* while one is outstanding is unsupported, so calls are serialized.
Load ==
    /\ pc = "idle"
    /\ step' = Op("load")
    /\ LET modelAsset == findAsset(assets, AssetType("Model"))
           geoAsset == findAsset(assets, AssetType("Geometry"))
       IN  IF modelAsset # 0
           THEN /\ requests' = <<Request("model", assets[modelAsset])>>
                /\ pc' = "model"
                /\ promise' = Settled("pending", "none")
                /\ imageAssets' = <<>>
           ELSE IF geoAsset # 0
           THEN /\ requests' = <<Request("geometry", assets[geoAsset])>>
                /\ pc' = "geometry"
                /\ promise' = Settled("pending", "none")
                /\ imageAssets' = findAssets(assets, AssetType("Image"))
           ELSE /\ requests' = <<>>
                /\ pc' = "idle"
                /\ promise' = Settled("undefined", "none")
                /\ imageAssets' = findAssets(assets, AssetType("Image"))
    /\ tex' = <<>>
    /\ UNCHANGED <<id, usage, quality, assets, model, boundingBox, released,
                   srcData>>
    /\ UNCHANGED notDerivative

\* loadModel(...).then(object => ...)
ModelLoaded(result) ==
    /\ pc = "model"
    /\ model' = LoadedObject(result)
    /\ boundingBox' = expandByObject(makeEmpty(boundingBox), model')
    /\ released' = NoReleases
    /\ promise' = Settled("resolved", "this")
    /\ pc' = "idle"
    /\ step' = Op("modelLoaded")
    /\ UNCHANGED <<id, usage, quality, assets, imageAssets, tex, requests,
                   srcData>>
    /\ UNCHANGED notDerivative

\* What loadModel / loadGeometry rejects with when a request fails.
LoaderError(request) == [failed |-> request]

\* (variant: a handler takes the rejection and the chain goes on fulfilled)
loadRejectedHandled(request) == Settled("resolved", "this")

\* The .then(...) chains of load() have no rejection handler for loadModel
\* and loadGeometry: the returned promise rejects with the loader's error.
loadRejected(request) == Settled("rejected", LoaderError(request))

\* loadModel or loadGeometry rejects
LoadFailed ==
    /\ pc \in {"model", "geometry"}
    /\ promise' = loadRejected(requests[1])
    /\ pc' = "idle"
    /\ step' = Op("loadFailed")
    /\ UNCHANGED <<id, usage, quality, assets, model, boundingBox, imageAssets,
                   tex, requests, released, srcData>>
    /\ UNCHANGED notDerivative

\* loadGeometry(...).then(geometry => ...): the mesh, its box, and all the
\* texture requests at once; with no image asset Promise.all([]) is
\* fulfilled at once and the last .then runs in the same turn.
GeometryLoaded(geometry) ==
    /\ pc = "geometry"
    /\ LET mesh == Mesh(geometry, UberMaterial)
           n == Len(imageAssets)
       IN  /\ boundingBox' = expandByObject(makeEmpty(boundingBox), mesh)
           /\ requests' = requests \o
                  [i \in 1..n |-> Request("texture", imageAssets[i])]
           /\ tex' = [i \in 1..n |-> "pending"]
           /\ IF n = 0
              THEN /\ model' = texturesThen(mesh, <<>>)
                   /\ promise' = Settled("resolved", "this")
                   /\ pc' = "idle"
              ELSE /\ model' = mesh
                   /\ promise' = promise
                   /\ pc' = "textures"
    /\ released' = NoReleases
    /\ step' = Op("geometryLoaded")
    /\ UNCHANGED <<id, usage, quality, assets, imageAssets, srcData>>
    /\ UNCHANGED notDerivative

\* One texture request resolves.  Promise.all is fulfilled when the last
\* one does, with the textures in request order; texture i is the object
\* loaded for imageAssets[i].
TextureLoaded(i) ==
    /\ i \in 1..Len(tex)
    /\ tex[i] = "pending"
    /\ tex' = [tex EXCEPT ![i] = "loaded"]
    /\ IF pc = "textures" /\ \A j \in 1..Len(tex) : tex'[j] = "loaded"
       THEN /\ model' = texturesThen(model, [j \in 1..Len(tex) |-> j])
            /\ promise' = Settled("resolved", "this")
            /\ pc' = "idle"
       ELSE UNCHANGED <<model, promise, pc>>
    /\ step' = Op("textureLoaded")
    /\ UNCHANGED <<id, usage, quality, assets, boundingBox, imageAssets,
                   requests, released, srcData>>
    /\ UNCHANGED notDerivative

\* One texture request rejects.  Promise.all rejects with the first
\* rejection, whatever the other requests do; the catch handler then
\* decides how the chain goes on.
TextureFailed(i) ==
    /\ i \in 1..Len(tex)
    /\ tex[i] = "pending"
    /\ tex' = [tex EXCEPT ![i] = "failed"]
    /\ IF pc = "textures"
       THEN /\ pc' = "idle"
            /\ IF catchTextureError.rejects
               THEN /\ promise' = Settled("rejected", "none")
                    /\ model' = model
               ELSE /\ promise' = Settled("resolved", "this")
                    /\ model' = texturesThen(model, catchTextureError.textures)
       ELSE UNCHANGED <<model, promise, pc>>
    /\ step' = Op("textureFailed")
    /\ UNCHANGED <<id, usage, quality, assets, boundingBox, imageAssets,
                   requests, released, srcData>>
    /\ UNCHANGED notDerivative

\* (variant: dispose() drops the model it has disposed)
modelAfterDisposeNull(object) == NullModel

\* this.model after dispose(): the method assigns no field, the disposed
\* object stays referenced
modelAfterDispose(object) == object

\* dispose()
Dispose ==
    /\ released[0] < MaxDisposes
    /\ released' = dispose(model, released)
    /\ model' = modelAfterDispose(model)
    /\ step' = Op("dispose")
    /\ UNCHANGED <<id, usage, quality, assets, boundingBox, pc, promise,
                   imageAssets, tex, requests, srcData>>
    /\ UNCHANGED notDerivative

\* addAsset(uri, type, mapType); step.args keeps the type and mapType of a
\* call that returned
AddAsset(uri, type, mapType) ==
    /\ uri # "" => Len(assets) < MaxAssets
    /\ LET r == addAsset(assets, uri, type, mapType)
       IN  /\ assets' = r.assets
           /\ step' = [op |-> "addAsset", uri |-> uri, threw |-> r.threw,
                       result |-> "none",
                       args |-> IF r.threw THEN <<>> ELSE <<type, mapType>>]
    /\ UNCHANGED <<id, usage, quality, model, boundingBox, pc, promise,
                   imageAssets, tex, requests, released, srcData>>
    /\ UNCHANGED notDerivative

\* Arguments addAsset is called with: an empty uri or the next free one,
\* any asset type, with or without a map type.
AddAssetUris == {"", Uris[Len(assets) + 1]}
AddAssetMapTypes == {undefined, MapType("Color")}

Next ==
    \/ Load
    \/ \E result \in ModelResults : ModelLoaded(result)
    \/ LoadFailed
    \/ \E geometry \in GeometryResults : GeometryLoaded(geometry)
    \/ \E i \in 1..MaxAssets : TextureLoaded(i)
    \/ \E i \in 1..MaxAssets : TextureFailed(i)
    \/ Dispose
    \/ \E uri \in AddAssetUris, type \in 0..(Len(EAssetType) - 1),
          mapType \in AddAssetMapTypes : AddAsset(uri, type, mapType)

Range(seq) == { seq[i] : i \in 1..Len(seq) }

\* The persisted data of the checked Derivatives: every asset list for one
\* usage and quality, and every usage and quality for two asset lists.
InitData ==
    DerivativeData({"Editorial"}, {"High"}, AssetDataLists)
    \cup DerivativeData(Range(EDerivativeUsage), Range(EDerivativeQuality),
                        { AssetData(OtherMapsList),
                          AssetData(<<[type |-> "Model", mapType |-> "undefined"]>>) })


\* The Derivative of the other components' specifications: one, untouched.
DParked ==
    Constructed([usage |-> "Web", quality |-> "Thumb", assets |-> <<>>])

----------------------------------------------------------------------------
(* Derivative: the methods that only read (toData, toString, findAsset,    *)
(* findAssets), called between the operations above                        *)

\* toString(): the three values the template string is made of
toString ==
    [usage |-> EnumName(EDerivativeUsage, usage),
     quality |-> EnumName(EDerivativeQuality, quality),
     assets |-> Len(assets)]

Query(name, value) == [Op(name) EXCEPT !.result = value]

DerivativeFrame == <<id, usage, quality, assets, model, boundingBox, pc,
                     promise, imageAssets, tex, requests, released, srcData>>

ToData ==
    /\ step' = Query("toData", toData)
    /\ UNCHANGED DerivativeFrame
    /\ UNCHANGED notDerivative

CallToString ==
    /\ step' = Query("toString", toString)
    /\ UNCHANGED DerivativeFrame
    /\ UNCHANGED notDerivative

FindAsset(type) ==
    /\ LET i == findAsset(assets, type)
       IN  step' = Query("findAsset", IF i = 0 THEN <<>> ELSE <<assets[i]>>)
    /\ UNCHANGED DerivativeFrame
    /\ UNCHANGED notDerivative

FindAssets(type) ==
    /\ step' = Query("findAssets", findAssets(assets, type))
    /\ UNCHANGED DerivativeFrame
    /\ UNCHANGED notDerivative

\* The data of the Derivatives the reading methods are called on.
QueriesData ==
    DerivativeData({"Print"}, {"Stream"},
        { AssetData(<<>>),
          AssetData(<<[type |-> "Model", mapType |-> "undefined"]>>),
          AssetData(<<[type |-> "Geometry", mapType |-> "undefined"],
                      [type |-> "Image", mapType |-> "Color"]>>) })

QueriesNext ==
    \/ Load
    \/ \E result \in ModelResults : ModelLoaded(result)
    \/ LoadFailed
    \/ \E geometry \in GeometryResults : GeometryLoaded(geometry)
    \/ \E i \in 1..MaxAssets : TextureLoaded(i)
    \/ \E i \in 1..MaxAssets : TextureFailed(i)
    \/ Dispose
    \/ \E uri \in AddAssetUris, type \in 0..(Len(EAssetType) - 1),
          mapType \in AddAssetMapTypes : AddAsset(uri, type, mapType)
    \/ ToData
    \/ CallToString
    \/ \E type \in 0..(Len(EAssetType) - 1) : FindAsset(type)
    \/ \E type \in 0..(Len(EAssetType) - 1) : FindAssets(type)

----------------------------------------------------------------------------
(* Derivative: the constructor call itself (179-187)                       *)

\* The third argument of the constructor: an asset data array, or omitted
\* (the parameter is declared optional).
ConstructorAssetData ==
    { [given |-> TRUE, assetData |-> list] : list \in AssetDataLists }
    \cup { [given |-> FALSE, assetData |-> <<>>] }

\* assetData.map(data => new Asset(data)): a TypeError when assetData is
\* undefined, else the fields of the new object
construct(u, q, arg) ==
    IF ~arg.given
    THEN [threw |-> TRUE, d |-> Derivative(u, q, <<>>)]
    ELSE [threw |-> FALSE, d |-> Derivative(u, q, arg.assetData)]

\* Before the constructor call: no Derivative.
NoDerivative ==
    /\ srcData = [usage |-> "none", quality |-> "none", assets |-> <<>>]
    /\ id = ""
    /\ usage = undefined
    /\ quality = undefined
    /\ assets = <<>>
    /\ model = NullModel
    /\ boundingBox = EmptyBox
    /\ pc = "idle"
    /\ promise = [state |-> "none", value |-> "none"]
    /\ imageAssets = <<>>
    /\ tex = <<>>
    /\ requests = <<>>
    /\ released = NoReleases
    /\ step = Op("none")

\* new Derivative(usage, quality, assetData)
Constructor(u, q, arg) ==
    /\ step.op = "none"
    /\ LET r == construct(u, q, arg)
       IN  IF r.threw
           THEN /\ step' = [Op("constructor") EXCEPT !.threw = TRUE,
                                                     !.args = <<u, q, arg>>]
                /\ UNCHANGED <<id, usage, quality, assets, model, boundingBox,
                               srcData>>
           ELSE /\ step' = [Op("constructor") EXCEPT !.args = <<u, q, arg>>]
                /\ id' = r.d.id
                /\ usage' = r.d.usage
                /\ quality' = r.d.quality
                /\ assets' = r.d.assets
                /\ model' = r.d.model
                /\ boundingBox' = r.d.boundingBox
                /\ srcData' = [usage |-> EnumName(EDerivativeUsage, u),
                               quality |-> EnumName(EDerivativeQuality, q),
                               assets |-> arg.assetData]
    /\ UNCHANGED <<pc, promise, imageAssets, tex, requests, released>>
    /\ UNCHANGED notDerivative

ConstructorNext ==
    \E u \in 0..(Len(EDerivativeUsage) - 1),
       q \in 0..(Len(EDerivativeQuality) - 1),
       arg \in ConstructorAssetData : Constructor(u, q, arg)

----------------------------------------------------------------------------
(* CVScene (part_001 1-112) and the CVModel2 components of its graph       *)

Models == 1..MaxModels

\* Extents of a model's object3D: empty while nothing is loaded into it.
ModelBoxes == { EmptyBox, Box(0, 1), Box(2, 3) }

\* ins.units: EUnitType values, EUnitType.cm the preset
UnitTypes == {"cm", "m"}

\* this.models.forEach(model => box.expandByObject(model.object3D))
RECURSIVE expandByObjects(_, _, _)
expandByObjects(box, members, boxes) ==
    IF members = {} THEN box
    ELSE LET m == CHOOSE x \in members : TRUE
         IN  expandByObjects(expandByObject(box, [box |-> boxes[m]]),
                             members \ {m}, boxes)

\* (variant of updateModelBoundingBox: the box is not emptied first)
updateModelBoundingBoxNoReset(box, members, boxes) ==
    expandByObjects(box, members, boxes)

\* updateModelBoundingBox(): the new _modelBoundingBox, from the models the
\* graph holds at the call; this.emit("bounding-box") follows.
updateModelBoundingBox(box, members, boxes) ==
    expandByObjects(makeEmpty(box), members, boxes)

SceneEvent(ev, m, handled, emitted) ==
    [ev |-> ev, model |-> m, handled |-> handled, emitted |-> emitted]

\* onModelComponent(event) for event.object = m, with the graph's models
\* as they are when the event is delivered.
onModelComponent(add, remove, m, members, boxes) ==
    LET afterAdd == IF add THEN boxListeners \cup {m} ELSE boxListeners
    IN  [boxListeners |-> IF remove THEN afterAdd \ {m} ELSE afterAdd,
         linkedUnits |-> IF add THEN linkedUnits \cup {m} ELSE linkedUnits,
         modelBoundingBox |->
             updateModelBoundingBox(modelBoundingBox, members, boxes)]

\* The graph before the scene exists: some models may be there already.
SStart ==
    /\ sceneState = "none"
    /\ \E pre \in SUBSET Models, f \in [Models -> ModelBoxes] :
          /\ graphModels = pre
          /\ object3D = [m \in Models |-> IF m \in pre THEN f[m] ELSE EmptyBox]
    /\ removedModels = {}
    /\ graphListener = FALSE
    /\ boxListeners = {}
    /\ linkedUnits = {}
    /\ units = "cm"
    /\ modelBoundingBox = EmptyBox
    /\ sceneEvent = SceneEvent("none", 0, FALSE, FALSE)

\* The scene of the other components' specifications: none.
SParked ==
    /\ sceneState = "none"
    /\ graphModels = {}
    /\ object3D = [m \in Models |-> EmptyBox]
    /\ removedModels = {}
    /\ graphListener = FALSE
    /\ boxListeners = {}
    /\ linkedUnits = {}
    /\ units = "cm"
    /\ modelBoundingBox = EmptyBox
    /\ sceneEvent = SceneEvent("none", 0, FALSE, FALSE)

\* create(): subscribe to the graph's CVModel2 set, link the units of the
\* models that are already there.
SceneCreate ==
    /\ sceneState = "none"
    /\ sceneState' = "created"
    /\ graphListener' = TRUE
    /\ linkedUnits' = graphModels
    /\ sceneEvent' = SceneEvent("create", 0, TRUE, FALSE)
    /\ UNCHANGED <<graphModels, removedModels, object3D, boxListeners, units,
                   modelBoundingBox>>
    /\ UNCHANGED notScene

\* A CVModel2 is added to the graph: the set holds it when the event is
\* delivered to its subscribers.
ModelAdded(m, box) ==
    /\ m \notin graphModels \cup removedModels
    /\ graphModels' = graphModels \cup {m}
    /\ object3D' = [object3D EXCEPT ![m] = box]
    /\ IF graphListener
       THEN LET r == onModelComponent(TRUE, FALSE, m, graphModels', object3D')
            IN  /\ boxListeners' = r.boxListeners
                /\ linkedUnits' = r.linkedUnits
                /\ modelBoundingBox' = r.modelBoundingBox
                /\ sceneEvent' = SceneEvent("add", m, TRUE, TRUE)
       ELSE /\ UNCHANGED <<boxListeners, linkedUnits, modelBoundingBox>>
            /\ sceneEvent' = SceneEvent("add", m, FALSE, FALSE)
    /\ UNCHANGED <<sceneState, removedModels, graphListener, units>>
    /\ UNCHANGED notScene

\* A CVModel2 is removed from the graph: the set no longer holds it when
\* the event is delivered.
ModelRemoved(m) ==
    /\ m \in graphModels
    /\ graphModels' = graphModels \ {m}
    /\ removedModels' = removedModels \cup {m}
    /\ IF graphListener
       THEN LET r == onModelComponent(FALSE, TRUE, m, graphModels', object3D)
            IN  /\ boxListeners' = r.boxListeners
                /\ linkedUnits' = r.linkedUnits
                /\ modelBoundingBox' = r.modelBoundingBox
                /\ sceneEvent' = SceneEvent("remove", m, TRUE, TRUE)
       ELSE /\ UNCHANGED <<boxListeners, linkedUnits, modelBoundingBox>>
            /\ sceneEvent' = SceneEvent("remove", m, FALSE, FALSE)
    /\ UNCHANGED <<sceneState, object3D, graphListener, units>>
    /\ UNCHANGED notScene

\* A member model's extent changes and the model emits "bounding-box":
\* updateModelBoundingBox runs if it is subscribed to that model.
ModelBoundingBoxChanged(m, box) ==
    /\ m \in graphModels
    /\ box # object3D[m]
    /\ object3D' = [object3D EXCEPT ![m] = box]
    /\ IF m \in boxListeners
       THEN /\ modelBoundingBox' =
                updateModelBoundingBox(modelBoundingBox, graphModels, object3D')
            /\ sceneEvent' = SceneEvent("bounding-box", m, TRUE, TRUE)
       ELSE /\ UNCHANGED modelBoundingBox
            /\ sceneEvent' = SceneEvent("bounding-box", m, FALSE, FALSE)
    /\ UNCHANGED <<sceneState, graphModels, removedModels, graphListener,
                   boxListeners, linkedUnits, units>>
    /\ UNCHANGED notScene

\* ins.units is set to another value; update() sees ins.units.changed.
UnitsChanged(u) ==
    /\ sceneState = "created"
    /\ u # units
    /\ units' = u
    /\ modelBoundingBox' =
           updateModelBoundingBox(modelBoundingBox, graphModels, object3D)
    /\ sceneEvent' = SceneEvent("units", 0, TRUE, TRUE)
    /\ UNCHANGED <<sceneState, graphModels, removedModels, object3D,
                   graphListener, boxListeners, linkedUnits>>
    /\ UNCHANGED notScene

\* dispose(): unsubscribe from the graph's CVModel2 set
SceneDispose ==
    /\ sceneState = "created"
    /\ sceneState' = "disposed"
    /\ graphListener' = FALSE
    /\ sceneEvent' = SceneEvent("dispose", 0, TRUE, FALSE)
    /\ UNCHANGED <<graphModels, removedModels, object3D, boxListeners,
                   linkedUnits, units, modelBoundingBox>>
    /\ UNCHANGED notScene

SceneNext ==
    \/ SceneCreate
    \/ \E m \in Models, box \in ModelBoxes : ModelAdded(m, box)
    \/ \E m \in Models : ModelRemoved(m)
    \/ \E m \in Models, box \in ModelBoxes : ModelBoundingBoxChanged(m, box)
    \/ \E u \in UnitTypes : UnitsChanged(u)
    \/ SceneDispose

----------------------------------------------------------------------------
(* CVAssetLoader.loadDocumentData / validateDocument (116-130)             *)

DocUrls == {"d1", "d2"}

\* What the JSON loader can deliver: a parsed value, which the validator's
\* schema accepts or not.
Jsons == { [id |-> i, conforms |-> c] : i \in 1..2, c \in BOOLEAN }

\* What the JSON loader can reject with.
JsonErrors == {"network", "parse"}

InvalidDocumentError == "invalid document data, validation failed"

\* this.validator.validateDocument(json)
validatorAccepts(json) == json.conforms

\* (variant of validateDocument: the validator's verdict is ignored)
validateDocumentUnchecked(json) == [state |-> "resolved", value |-> json]

\* validateDocument(json): the outcome of the promise it returns
validateDocument(json) ==
    IF ~validatorAccepts(json)
    THEN [state |-> "rejected", value |-> InvalidDocumentError]
    ELSE [state |-> "resolved", value |-> json]

DocCall(url) ==
    [url |-> url, loaded |-> "pending", json |-> "none", validated |-> 0,
     promise |-> [state |-> "pending", value |-> "none"]]

DocStart == docCalls = <<>>

\* loadDocumentData(url): loadJSON(url).then(...), nothing settled yet
LoadDocumentData(url) ==
    /\ Len(docCalls) < MaxDocCalls
    /\ docCalls' = Append(docCalls, DocCall(url))
    /\ UNCHANGED notDocument

\* The JSON load of call i fulfils: the .then handler validates the value
\* and the call's promise follows the promise validateDocument returns.
JsonLoaded(i, json) ==
    /\ i \in 1..Len(docCalls)
    /\ docCalls[i].loaded = "pending"
    /\ docCalls' = [docCalls EXCEPT ![i] =
           [@ EXCEPT !.loaded = "fulfilled", !.json = json,
                     !.validated = @ + 1,
                     !.promise = validateDocument(json)]]
    /\ UNCHANGED notDocument

\* The JSON load of call i rejects: the .then has no rejection handler
JsonFailed(i, error) ==
    /\ i \in 1..Len(docCalls)
    /\ docCalls[i].loaded = "pending"
    /\ docCalls' = [docCalls EXCEPT ![i] =
           [@ EXCEPT !.loaded = "rejected",
                     !.promise = [state |-> "rejected", value |-> error]]]
    /\ UNCHANGED notDocument

DocumentNext ==
    \/ \E url \in DocUrls : LoadDocumentData(url)
    \/ \E i \in 1..MaxDocCalls, json \in Jsons : JsonLoaded(i, json)
    \/ \E i \in 1..MaxDocCalls, error \in JsonErrors : JsonFailed(i, error)

----------------------------------------------------------------------------
(* ContentView (ContentView.ts 30-120) on DocumentView (part_000 29-96)    *)

\* The documents the provider can make active; 0 stands for null.
Documents == 1..MaxDocuments

\* document.setup: the scene of a document; the last document has none.
Setup(document) == IF document = MaxDocuments THEN 0 ELSE document

Scenes == { Setup(d) : d \in Documents } \ {0}

EReaderPosition == {"Overlay", "Right"}

NoListeners == [visible |-> 0, position |-> 0]

\* publisher.on(...): one more subscription of the listener
On(count) == count + 1

\* publisher.off(...): the listener's subscription is removed, if there is one
Off(count) == IF count > 0 THEN count - 1 ELSE 0

\* (variant of onActiveFeatures: the previous reader is not unsubscribed)
onActiveFeaturesKeepsPrevious(previous, next, listeners) ==
    IF next # 0
    THEN [listeners EXCEPT ![next] = [visible |-> On(@.visible),
                                      position |-> On(@.position)]]
    ELSE listeners

\* ContentView.onActiveFeatures(previous, next): the reader listeners after it
onActiveFeatures(previous, next, listeners) ==
    LET afterOff ==
            IF previous # 0
            THEN [listeners EXCEPT ![previous] =
                     [visible |-> Off(@.visible), position |-> Off(@.position)]]
            ELSE listeners
    IN  IF next # 0
        THEN [afterOff EXCEPT ![next] = [visible |-> On(@.visible),
                                         position |-> On(@.position)]]
        ELSE afterOff

\* The last view event, whether it reached the view, and the
\* onActiveDocument / onActiveFeatures calls the view made in it.
ViewStep(ev, reached) == [ev |-> ev, reached |-> reached, hooks |-> <<>>]

Hook(name, previous, next) ==
    [hook |-> name, previous |-> previous, next |-> next]

\* (variant of onActiveDocumentEvent: activeScene is not updated)
onActiveDocumentEventKeepsScene(event) ==
    LET prevScene == IF event.previous # 0 THEN Setup(event.previous) ELSE 0
    IN  [activeDocument |-> event.next,
         activeScene |-> activeScene,
         hooks |-> <<Hook("onActiveDocument", event.previous, event.next),
                     Hook("onActiveFeatures", prevScene, activeScene)>>]

\* DocumentView.onActiveDocumentEvent(event): the fields it assigns and the
\* hooks it calls, in order
onActiveDocumentEvent(event) ==
    LET prevScene == IF event.previous # 0 THEN Setup(event.previous) ELSE 0
        nextScene == IF event.next # 0 THEN Setup(event.next) ELSE 0
    IN  [activeDocument |-> event.next,
         activeScene |-> nextScene,
         hooks |-> <<Hook("onActiveDocument", event.previous, event.next),
                     Hook("onActiveFeatures", prevScene, nextScene)>>]

\* A view that was never connected; the provider may have an active document.
ViewStart ==
    /\ viewConnected = FALSE
    /\ providerActive \in {0} \cup Documents
    /\ activeDocument = 0
    /\ activeScene = 0
    /\ providerListeners = 0
    /\ busyListeners = 0
    /\ readerListeners = [s \in Scenes |-> NoListeners]
    /\ readerIns = [s \in Scenes |-> [visible |-> FALSE, position |-> "Overlay"]]
    /\ busy = FALSE
    /\ viewStep = ViewStep("none", FALSE)

\* The view of the other components' specifications: never connected.
ViewParked ==
    /\ viewConnected = FALSE
    /\ providerActive = 0
    /\ activeDocument = 0
    /\ activeScene = 0
    /\ providerListeners = 0
    /\ busyListeners = 0
    /\ readerListeners = [s \in Scenes |-> NoListeners]
    /\ readerIns = [s \in Scenes |-> [visible |-> FALSE, position |-> "Overlay"]]
    /\ busy = FALSE
    /\ viewStep = ViewStep("none", FALSE)

\* connectedCallback: DocumentView.connected(), then the busy subscription
Connected ==
    /\ ~viewConnected
    /\ viewConnected' = TRUE
    /\ providerListeners' = On(providerListeners)
    /\ IF providerActive # 0
       THEN /\ activeDocument' = providerActive
            /\ activeScene' = Setup(providerActive)
            /\ readerListeners' =
                  IF Setup(providerActive) # 0
                  THEN onActiveFeatures(0, Setup(providerActive), readerListeners)
                  ELSE readerListeners
       ELSE UNCHANGED <<activeDocument, activeScene, readerListeners>>
    /\ busyListeners' = On(busyListeners)
    /\ viewStep' = [ViewStep("connected", TRUE) EXCEPT !.hooks =
           IF providerActive = 0 THEN <<>>
           ELSE <<Hook("onActiveDocument", 0, providerActive)>> \o
                (IF Setup(providerActive) # 0
                 THEN <<Hook("onActiveFeatures", 0, Setup(providerActive))>>
                 ELSE <<>>)]
    /\ UNCHANGED <<providerActive, readerIns, busy>>
    /\ UNCHANGED notView

\* disconnectedCallback: the busy unsubscription, then
\* DocumentView.disconnected()
Disconnected ==
    /\ viewConnected
    /\ viewConnected' = FALSE
    /\ busyListeners' = Off(busyListeners)
    /\ providerListeners' = Off(providerListeners)
    /\ IF activeDocument # 0
       THEN /\ activeDocument' = 0
            /\ activeScene' = 0
            /\ readerListeners' =
                  IF activeScene # 0
                  THEN onActiveFeatures(activeScene, 0, readerListeners)
                  ELSE readerListeners
       ELSE UNCHANGED <<activeDocument, activeScene, readerListeners>>
    /\ viewStep' = [ViewStep("disconnected", TRUE) EXCEPT !.hooks =
           IF activeDocument = 0 THEN <<>>
           ELSE <<Hook("onActiveDocument", activeDocument, 0)>> \o
                (IF activeScene # 0
                 THEN <<Hook("onActiveFeatures", activeScene, 0)>>
                 ELSE <<>>)]
    /\ UNCHANGED <<providerActive, readerIns, busy>>
    /\ UNCHANGED notView

\* The provider makes another document (or none) the active one and emits
\* "active-component" with the previous and the next one; a subscribed view
\* runs onActiveDocumentEvent.
ActiveDocumentChanged(next) ==
    /\ next # providerActive
    /\ providerActive' = next
    /\ IF providerListeners > 0
       THEN LET r == onActiveDocumentEvent([previous |-> providerActive,
                                            next |-> next])
            IN  /\ activeDocument' = r.activeDocument
                /\ activeScene' = r.activeScene
                /\ readerListeners' =
                      onActiveFeatures(r.hooks[2].previous, r.hooks[2].next,
                                       readerListeners)
                /\ viewStep' = [ViewStep("active-component", TRUE)
                                   EXCEPT !.hooks = r.hooks]
       ELSE /\ UNCHANGED <<activeDocument, activeScene, readerListeners>>
            /\ viewStep' = ViewStep("active-component", FALSE)
    /\ UNCHANGED <<viewConnected, providerListeners, busyListeners, readerIns,
                   busy>>
    /\ UNCHANGED notView

\* reader.ins.visible of a scene changes: its listeners are called
ReaderVisibleChanged(scene) ==
    /\ readerIns' = [readerIns EXCEPT ![scene].visible = ~@]
    /\ viewStep' = ViewStep("visible", readerListeners[scene].visible > 0)
    /\ UNCHANGED <<viewConnected, providerActive, activeDocument, activeScene,
                   providerListeners, busyListeners, readerListeners, busy>>
    /\ UNCHANGED notView

\* reader.ins.position of a scene changes: its listeners are called
ReaderPositionChanged(scene, position) ==
    /\ position # readerIns[scene].position
    /\ readerIns' = [readerIns EXCEPT ![scene].position = position]
    /\ viewStep' = ViewStep("position", readerListeners[scene].position > 0)
    /\ UNCHANGED <<viewConnected, providerActive, activeDocument, activeScene,
                   providerListeners, busyListeners, readerListeners, busy>>
    /\ UNCHANGED notView

\* assetLoader.outs.busy changes: its listeners are called
BusyChanged ==
    /\ busy' = ~busy
    /\ viewStep' = ViewStep("busy", busyListeners > 0)
    /\ UNCHANGED <<viewConnected, providerActive, activeDocument, activeScene,
                   providerListeners, busyListeners, readerListeners,
                   readerIns>>
    /\ UNCHANGED notView

ViewNext ==
    \/ Connected
    \/ Disconnected
    \/ \E next \in {0} \cup Documents : ActiveDocumentChanged(next)
    \/ \E scene \in Scenes : ReaderVisibleChanged(scene)
    \/ \E scene \in Scenes, position \in EReaderPosition :
          ReaderPositionChanged(scene, position)
    \/ BusyChanged

vars == <<lmVars, dVars, sVars, docVars, cvVars>>

\* The Derivative: constructed from any of the persisted data.
Init ==
    /\ \E data \in InitData : Constructed(data)
    /\ LMStart
    /\ SParked
    /\ DocStart
    /\ ViewParked

Spec == Init /\ [][Next]_vars

\* The loading manager of a new CVAssetLoader.
LoadingInit ==
    /\ LMStart
    /\ DParked
    /\ SParked
    /\ DocStart
    /\ ViewParked

SpecLoading == LoadingInit /\ [][LoadingNext]_vars

\* A graph with any of its models already there, and no scene yet.
SceneInit ==
    /\ SStart
    /\ LMStart
    /\ DParked
    /\ DocStart
    /\ ViewParked

SpecScene == SceneInit /\ [][SceneNext]_vars

\* A new CVAssetLoader on which loadDocumentData has not been called.
DocumentInit ==
    /\ DocStart
    /\ LMStart
    /\ DParked
    /\ SParked
    /\ ViewParked

SpecDocument == DocumentInit /\ [][DocumentNext]_vars

\* A Derivative on which the reading methods are called as well.
QueriesInit ==
    /\ \E data \in QueriesData : Constructed(data)
    /\ LMStart
    /\ SParked
    /\ DocStart
    /\ ViewParked

SpecQueries == QueriesInit /\ [][QueriesNext]_vars

\* Before a Derivative is constructed.
ConstructorInit ==
    /\ NoDerivative
    /\ LMStart
    /\ SParked
    /\ DocStart
    /\ ViewParked

SpecConstructor == ConstructorInit /\ [][ConstructorNext]_vars

\* A ContentView that is not connected yet.
ViewInit ==
    /\ ViewStart
    /\ LMStart
    /\ DParked
    /\ SParked
    /\ DocStart

SpecView == ViewInit /\ [][ViewNext]_vars

----------------------------------------------------------------------------
(* Derivative: what a state says about the last load() call                *)

\* The last load() call took the model path / the geometry path.
ModelPath == requests # <<>> /\ requests[1].loader = "model"
GeometryPath == requests # <<>> /\ requests[1].loader = "geometry"

\* The promise of the last load() call is resolved with the Derivative.
ResolvedWithThis == promise = [state |-> "resolved", value |-> "this"]

\* Position of the first asset of the given type, by its definition.
IsFirstOfType(list, i, typeName) ==
    /\ i \in 1..Len(list)
    /\ EAssetType[list[i].type + 1] = typeName
    /\ \A j \in 1..(i - 1) : EAssetType[list[j].type + 1] # typeName

HasType(list, typeName) ==
    \E i \in 1..Len(list) : EAssetType[list[i].type + 1] = typeName

----------------------------------------------------------------------------
(* C1: for every interleaving of load starts, completions and errors, the  *)
(* "loading" output is never false while at least one started load has     *)
(* neither completed nor errored.                                          *)
C1_LoadingWhileOutstanding == (Outstanding > 0) => (loading = TRUE)

(* C2: when the geometry load succeeded and some of the texture loads      *)
(* rejected, load() is resolved with the Derivative (never rejected), and  *)
(* every material slot that holds a texture holds one whose load           *)
(* succeeded.                                                              *)
C2_TextureFailureTolerated ==
    (GeometryPath /\ \E i \in 1..Len(tex) : tex[i] = "failed") =>
        /\ ResolvedWithThis
        /\ \A slot \in MapSlots :
              Truthy(model.material[slot]) =>
                  /\ model.material[slot] \in 1..Len(tex)
                  /\ tex[model.material[slot]] = "loaded"

\* Several textures were requested, one failed, another one succeeded,
\* and load() is resolved.
C2_Witness ==
    /\ GeometryPath
    /\ Len(tex) >= 2
    /\ \E i, j \in 1..Len(tex) : tex[i] = "failed" /\ tex[j] = "loaded"
    /\ ResolvedWithThis

(* C3: with a Model asset in the list, load() requests exactly the first   *)
(* Model asset from the model loader and nothing else (no geometry, no     *)
(* texture request), assigns no material slot, and on success stores the   *)
(* loaded object as the model and resolves with the Derivative itself.     *)
C3_ModelPathState ==
    ModelPath =>
        /\ Len(requests) = 1
        /\ \E i \in 1..Len(assets) :
              /\ IsFirstOfType(assets, i, "Model")
              /\ requests[1].uri = assets[i].uri
        /\ tex = <<>>
        /\ promise.state \in {"pending", "resolved", "rejected"}
        /\ promise.state = "resolved" =>
              /\ ResolvedWithThis
              /\ model.kind = "object"
              /\ \E result \in ModelResults :
                    /\ model.material = result.material
                    /\ model.box = result.box

C3_ModelAuthoritative ==
    /\ []C3_ModelPathState
    /\ [][(Load /\ HasType(assets, "Model")) =>
             (requests' # <<>> /\ requests'[1].loader = "model"
              /\ model' = model)]_vars

\* A Derivative with two Model assets, a Geometry or an Image beside them,
\* loaded through the model path.
C3_Witness ==
    /\ ModelPath
    /\ ResolvedWithThis
    /\ Cardinality({i \in 1..Len(assets) : assets[i].type = AssetType("Model")}) >= 2
    /\ HasType(assets, "Geometry") \/ HasType(assets, "Image")
    /\ assets[1].type # AssetType("Model")

(* C4 (as claimed): after a geometry-path load() in which every texture    *)
(* load succeeded, for each Image asset the texture loaded from it is in   *)
(* the slot named by its mapType (MetallicRoughness: both the metalness    *)
(* and the roughness slot), and the slots no asset names stay unassigned.  *)
SlotsNamedBy(mapType) ==
    IF mapType = undefined THEN {}
    ELSE CASE EMapType[mapType + 1] = "Color" -> {"map"}
           [] EMapType[mapType + 1] = "Occlusion" -> {"aoMap"}
           [] EMapType[mapType + 1] = "Emissive" -> {"emissiveMap"}
           [] EMapType[mapType + 1] = "MetallicRoughness" ->
                  {"metalnessMap", "roughnessMap"}
           [] EMapType[mapType + 1] = "Normal" -> {"normalMap"}

AllTexturesLoaded ==
    /\ GeometryPath
    /\ ResolvedWithThis
    /\ Len(tex) = Len(imageAssets)
    /\ \A i \in 1..Len(tex) : tex[i] = "loaded"

UnnamedSlotsUnassigned ==
    \A slot \in MapSlots :
        (\A i \in 1..Len(imageAssets) :
            slot \notin SlotsNamedBy(imageAssets[i].mapType))
        => model.material[slot] = NoTexture

C4_EveryTextureInItsSlot ==
    AllTexturesLoaded =>
        /\ \A i \in 1..Len(imageAssets) :
              \A slot \in SlotsNamedBy(imageAssets[i].mapType) :
                  model.material[slot] = i
        /\ UnnamedSlotsUnassigned

(* C4 (amended): ... for each Image asset that is the last one of the      *)
(* image-asset list carrying its mapType, the texture loaded from it is in *)
(* the slot(s) named by that mapType; slots no asset names stay            *)
(* unassigned.                                                             *)
LastOfItsMapType(i) ==
    \A j \in (i + 1)..Len(imageAssets) :
        imageAssets[j].mapType # imageAssets[i].mapType

C4_LastTextureInItsSlot ==
    AllTexturesLoaded =>
        /\ \A i \in 1..Len(imageAssets) :
              LastOfItsMapType(i) =>
                  \A slot \in SlotsNamedBy(imageAssets[i].mapType) :
                      model.material[slot] = i
        /\ UnnamedSlotsUnassigned

\* Two textures loaded, one of them the packed metallic-roughness map,
\* which both its slots reference.
C4_Witness ==
    /\ AllTexturesLoaded
    /\ Len(imageAssets) >= 2
    /\ \E i \in 1..Len(imageAssets) :
          /\ imageAssets[i].mapType = MapType("MetallicRoughness")
          /\ model.material.metalnessMap = i
          /\ model.material.roughnessMap = i
    /\ Truthy(model.material.map)

(* C5: after every geometry-path load() that resolves, either a base-color *)
(* map is assigned and the shading values are untouched, or none is and    *)
(* the fallback constants (color 0.5, roughness 0.8, metalness 0) are      *)
(* applied; with no Image asset the load resolves right after the geometry *)
(* with no base-color map.                                                 *)
FallbackApplied(material) ==
    /\ material.color = "0.5"
    /\ material.roughness = "0.8"
    /\ material.metalness = "0"

FallbackNotApplied(material) ==
    /\ material.color = "default"
    /\ material.roughness = "default"
    /\ material.metalness = "default"

C5_MapOrFallback ==
    /\ (GeometryPath /\ promise.state = "resolved") =>
          /\ model.kind = "mesh"
          /\ Truthy(model.material.map) => FallbackNotApplied(model.material)
          /\ ~Truthy(model.material.map) => FallbackApplied(model.material)
    /\ (GeometryPath /\ imageAssets = <<>>) =>
          /\ pc # "textures"
          /\ promise.state \in {"pending", "resolved", "rejected"}
          /\ promise.state = "resolved" => ~Truthy(model.material.map)

\* A Derivative with a Geometry asset only, loaded.
C5_Witness ==
    /\ GeometryPath
    /\ ResolvedWithThis
    /\ Len(assets) = 1
    /\ imageAssets = <<>>
    /\ FallbackApplied(model.material)

(* C6: over any sequence of dispose() calls no resource the Derivative     *)
(* owns (the mesh geometry, the texture of each map slot) is released more *)
(* than once in total.                                                     *)
C6_ReleasedAtMostOnce == \A r \in DOMAIN released : released[r] <= 1

(* C7 (as claimed): boundingBox is empty unless the most recent completed  *)
(* load() succeeded, and then it is the box of the stored model; a load()  *)
(* that rejected leaves no non-empty boundingBox behind.  (promise is the  *)
(* outcome of the most recent load() call once it has settled.)            *)
BoxOfStoredModel == IF model.kind = "null" THEN EmptyBox ELSE model.box

C7_EmptyUnlessLastLoadSucceeded ==
    /\ (pc = "idle" /\ promise.state \in {"none", "rejected"}) => boundingBox.empty
    /\ promise.state = "resolved" => boundingBox = BoxOfStoredModel

(* C7 (amended): boundingBox is empty as long as no model is stored and    *)
(* otherwise is the box computed from the currently stored model; a load() *)
(* that rejects leaves the stored model and boundingBox as they were       *)
(* (which may be the non-empty box of an earlier successful load).         *)
C7_BoxMatchesModel ==
    /\ model.kind = "null" => boundingBox.empty
    /\ boundingBox = BoxOfStoredModel

C7_BoxOfStoredModel ==
    /\ []C7_BoxMatchesModel
    /\ [][(step'.op = "loadFailed" /\ promise'.state = "rejected") =>
             (boundingBox' = boundingBox /\ model' = model)]_vars

\* A load() rejected after an earlier one had stored a model with a box.
C7_Witness ==
    /\ promise.state = "rejected"
    /\ step.op = "loadFailed"
    /\ ~boundingBox.empty
    /\ boundingBox = model.box

(* C8: addAsset with an empty uri throws and leaves the asset list, the    *)
(* model and boundingBox exactly as they were.                             *)
C8_EmptyUriThrows ==
    [][(step'.op = "addAsset" /\ step'.uri = "") =>
          /\ step'.threw
          /\ assets' = assets
          /\ model' = model
          /\ boundingBox' = boundingBox]_vars

\* addAsset("", ...) has thrown on a loaded Derivative with assets.
C8_Witness ==
    /\ step.op = "addAsset"
    /\ step.uri = ""
    /\ step.threw
    /\ Len(assets) > 0
    /\ model.kind # "null"

(* C9: toData() gives back the persisted data the Derivative was           *)
(* constructed from: the same usage name, the same quality name and the    *)
(* same assets in the same order, exactly so as long as no asset was       *)
(* added, whatever load() and dispose() calls happened.                    *)
C9_ToDataInvertsConstruction ==
    /\ toData.usage = srcData.usage
    /\ toData.quality = srcData.quality
    /\ Len(toData.assets) >= Len(srcData.assets)
    /\ SubSeq(toData.assets, 1, Len(srcData.assets)) = srcData.assets
    /\ Len(assets) = Len(srcData.assets) => toData = srcData

\* A Derivative constructed from Print/Stream data with assets, loaded
\* and disposed, no asset added.
C9_Witness ==
    /\ srcData.usage = "Print"
    /\ srcData.quality = "Stream"
    /\ Len(srcData.assets) >= 1
    /\ Len(assets) = Len(srcData.assets)
    /\ promise.state = "resolved"
    /\ released[0] >= 1
    /\ toData = srcData

(* C10: after every model add or remove event the scene has processed, the *)
(* aggregate box is the union of the boxes of exactly the models that are  *)
(* members then: empty once the last model is removed, the model's own box *)
(* when it is the only member, never including a removed model.            *)
NonEmptyMembers == { m \in graphModels : ~object3D[m].empty }

UnionOfMembers ==
    IF NonEmptyMembers = {} THEN EmptyBox
    ELSE [empty |-> FALSE,
          min |-> CHOOSE lo \in { object3D[m].min : m \in NonEmptyMembers } :
                     \A m \in NonEmptyMembers : lo <= object3D[m].min,
          max |-> CHOOSE hi \in { object3D[m].max : m \in NonEmptyMembers } :
                     \A m \in NonEmptyMembers : hi >= object3D[m].max]

C10_AggregateBoxOfMembers ==
    (sceneEvent.ev \in {"add", "remove"} /\ sceneEvent.handled) =>
        /\ modelBoundingBox = UnionOfMembers
        /\ graphModels = {} => modelBoundingBox.empty
        /\ \A m \in graphModels :
              graphModels = {m} => modelBoundingBox = object3D[m]

\* A model with a box of its own was removed, and the aggregate is the box
\* of the one model that is left.
C10_Witness ==
    /\ sceneEvent.ev = "remove"
    /\ sceneEvent.handled
    /\ ~object3D[sceneEvent.model].empty
    /\ \E m \in Models :
          /\ graphModels = {m}
          /\ ~object3D[m].empty
          /\ object3D[m] # object3D[sceneEvent.model]
          /\ modelBoundingBox = object3D[m]

(* C11: a loadDocumentData call resolves if and only if its JSON load      *)
(* succeeded and the validator accepted the loaded JSON, and then with     *)
(* that same JSON; when the validator rejects the JSON the call rejects    *)
(* with an error; when the JSON load rejects the validator is not          *)
(* consulted and the call rejects with the loader's rejection.             *)
C11_ResolvesIffLoadedAndValid ==
    \A i \in 1..Len(docCalls) :
        LET call == docCalls[i] IN
        /\ call.loaded = "pending" =>
              (call.promise.state = "pending" /\ call.validated = 0)
        /\ call.promise.state = "resolved" <=>
              (call.loaded = "fulfilled" /\ call.json.conforms)
        /\ call.promise.state = "resolved" => call.promise.value = call.json
        /\ (call.loaded = "fulfilled" /\ ~call.json.conforms) =>
              /\ call.promise.state = "rejected"
              /\ call.promise.value = InvalidDocumentError
        /\ call.loaded = "fulfilled" => call.validated = 1
        /\ call.loaded = "rejected" =>
              /\ call.validated = 0
              /\ call.promise.state = "rejected"
              /\ call.promise.value \in JsonErrors

\* One call was rejected by the validator while another one's JSON load
\* failed.
C11_Witness ==
    \E i, j \in 1..Len(docCalls) :
        /\ docCalls[i].loaded = "fulfilled"
        /\ ~docCalls[i].json.conforms
        /\ docCalls[i].promise.state = "rejected"
        /\ docCalls[j].loaded = "rejected"

(* C12: when the model loader or the geometry loader rejects, load()       *)
(* rejects with that failure and nothing follows: the one model or         *)
(* geometry request of the call is the only request (no retry, no texture  *)
(* request), and neither the call nor its rejection changes the            *)
(* Derivative's model, boundingBox or assets.                              *)
C12_RejectedState ==
    step.op = "loadFailed" =>
        /\ promise.state = "rejected"
        /\ Len(requests) = 1
        /\ requests[1].loader \in {"model", "geometry"}
        /\ promise.value = LoaderError(requests[1])
        /\ tex = <<>>
        /\ pc = "idle"

C12_LoaderRejectionIsTerminal ==
    /\ []C12_RejectedState
    /\ [][(step'.op \in {"load", "loadFailed"}) =>
            (model' = model /\ boundingBox' = boundingBox /\ assets' = assets)]_vars
    /\ [][(step.op = "loadFailed" /\ step'.op # "load") =>
            (requests' = requests /\ promise' = promise)]_vars

\* A geometry load failed for a Derivative that has image assets and a
\* model stored by an earlier load.
C12_Witness ==
    /\ step.op = "loadFailed"
    /\ requests[1].loader = "geometry"
    /\ imageAssets # <<>>
    /\ model.kind # "null"
    /\ promise.state = "rejected"

(* C13: dispose() on a Derivative that holds no model (load() was never    *)
(* called, or every load() so far rejected before a model was stored)      *)
(* releases no resource and changes nothing of the Derivative.             *)
C13_NothingReleasedWithoutModel ==
    model.kind = "null" => released = NoReleases

C13_DisposeWithoutModel ==
    /\ []C13_NothingReleasedWithoutModel
    /\ [][(step'.op = "dispose" /\ model.kind = "null") =>
            UNCHANGED <<id, usage, quality, assets, model, boundingBox, pc,
                        promise, imageAssets, tex, requests, released,
                        srcData>>]_vars

\* dispose() ran after a load() that rejected with no model stored.
C13_Witness ==
    /\ step.op = "dispose"
    /\ model.kind = "null"
    /\ promise.state = "rejected"
    /\ released = NoReleases

(* C14: whenever no started load is outstanding the 'loading' output is    *)
(* false, and it stays false until the next load starts; the output        *)
(* changes only in an event that runs the manager's start, complete or     *)
(* error callback, and an event that runs the progress callback alone      *)
(* does not change it.                                                     *)
C14_FalseWhenNoneOutstanding == (Outstanding = 0) => (loading = FALSE)

Ran(callbacks, name) == \E i \in 1..Len(callbacks) : callbacks[i] = name

C14_LoadingFalseWhenQueueEmpty ==
    /\ []C14_FalseWhenNoneOutstanding
    /\ [][(Outstanding = 0 /\ loading' # loading) =>
            (Outstanding' > 0 /\ Ran(lmStep', "onStart"))]_vars
    /\ [][(loading' # loading) =>
            (\/ Ran(lmStep', "onStart")
             \/ Ran(lmStep', "onLoad")
             \/ Ran(lmStep', "onError"))]_vars
    /\ [][(lmStep' = <<"onProgress">>) => (loading' = loading)]_vars

\* The last outstanding load completed, after at least one other load
\* had ended.
C14_Witness ==
    /\ Outstanding = 0
    /\ itemsLoaded >= 2
    /\ Ran(lmStep, "onLoad")
    /\ ~Ran(lmStep, "onError")
    /\ loading = FALSE

(* C15: in the geometry path the texture requests of all the image assets  *)
(* are issued together once the geometry has loaded, and no texture load   *)
(* of the call is still in flight when the textures are assigned to the    *)
(* material and load() resolves.                                           *)
C15_TexturesJoinedBeforeAssignment ==
    /\ (step.op = "geometryLoaded" /\ pc = "textures") =>
          /\ Len(tex) = Len(imageAssets)
          /\ Len(requests) = 1 + Len(imageAssets)
          /\ \A i \in 1..Len(tex) :
                /\ tex[i] = "pending"
                /\ requests[i + 1] = Request("texture", imageAssets[i])
    /\ (GeometryPath /\ promise.state = "resolved") =>
          \A i \in 1..Len(tex) : tex[i] # "pending"

(* C16: when the joined texture request of a geometry-path load() rejects, *)
(* load() resolves with no texture in any map slot of the material (also   *)
(* not the textures whose own load succeeded, then or later), with the     *)
(* fallback shading constants applied, and with the model and boundingBox  *)
(* of the bare geometry mesh.                                              *)
TextureJoinRejected ==
    /\ GeometryPath
    /\ pc = "idle"
    /\ \E i \in 1..Len(tex) : tex[i] = "failed"

C16_ZeroTexturesState ==
    TextureJoinRejected =>
        /\ ResolvedWithThis
        /\ model.kind = "mesh"
        /\ \A slot \in MapSlots : ~Truthy(model.material[slot])
        /\ FallbackApplied(model.material)
        /\ model.box \in GeometryResults
        /\ boundingBox = model.box

C16_ZeroTexturesOnRejection ==
    /\ []C16_ZeroTexturesState
    /\ [][(step'.op = "textureFailed") =>
            (boundingBox' = boundingBox /\ model'.box = model.box)]_vars

\* One texture of the call loaded and another one failed.
C16_Witness ==
    /\ TextureJoinRejected
    /\ \E i \in 1..Len(tex) : tex[i] = "loaded"
    /\ ResolvedWithThis

(* C17: while the scene exists, every "bounding-box" change reported by a  *)
(* member model (also a model that was in the graph before the scene was   *)
(* created), every change of the units and every model add or remove makes *)
(* the scene recompute the aggregate box from the current members and emit *)
(* "bounding-box".                                                         *)
C17_EveryChangeRecomputes ==
    (/\ sceneState = "created"
     /\ sceneEvent.ev \in {"add", "remove", "bounding-box", "units"}) =>
        /\ sceneEvent.handled
        /\ sceneEvent.emitted
        /\ modelBoundingBox = UnionOfMembers

(* C18: load() on a Derivative with neither a Model nor a Geometry asset,  *)
(* whatever other assets it has, returns undefined (no promise), issues no *)
(* request to any loader and leaves model, boundingBox and assets as they  *)
(* were.                                                                   *)
NoModelNorGeometry ==
    ~HasType(assets, "Model") /\ ~HasType(assets, "Geometry")

C18_UndefinedState ==
    promise.state = "undefined" => (requests = <<>> /\ pc = "idle")

C18_UndefinedWithoutModelOrGeometry ==
    /\ []C18_UndefinedState
    /\ [][(step'.op = "load" /\ NoModelNorGeometry) =>
            /\ promise' = Settled("undefined", "none")
            /\ requests' = <<>>
            /\ tex' = <<>>
            /\ pc' = "idle"
            /\ model' = model
            /\ boundingBox' = boundingBox
            /\ assets' = assets]_vars
    /\ [][(step'.op = "load" /\ ~NoModelNorGeometry) =>
            promise'.state = "pending"]_vars

\* load() returned undefined for a Derivative that has image assets.
C18_Witness ==
    /\ step.op = "load"
    /\ promise.state = "undefined"
    /\ NoModelNorGeometry
    /\ HasType(assets, "Image")

(* C19: over every sequence of connected, active-document change and       *)
(* disconnected events, a connected ContentView holds exactly one          *)
(* subscription to the provider's "active-component" event, one to the     *)
(* loader's busy output, and one to the reader's visible and position      *)
(* properties of the active scene and of no other scene (of none when      *)
(* there is no active scene); a disconnected view holds no subscription;   *)
(* no listener is registered twice or left on an earlier scene.            *)
ActiveSceneOfProvider == IF providerActive # 0 THEN Setup(providerActive) ELSE 0

C19_SubscriptionsMatchConnection ==
    /\ viewConnected =>
          /\ providerListeners = 1
          /\ busyListeners = 1
          /\ activeDocument = providerActive
          /\ activeScene = ActiveSceneOfProvider
          /\ \A s \in Scenes :
                readerListeners[s] =
                    IF s = activeScene THEN [visible |-> 1, position |-> 1]
                    ELSE NoListeners
    /\ ~viewConnected =>
          /\ providerListeners = 0
          /\ busyListeners = 0
          /\ \A s \in Scenes : readerListeners[s] = NoListeners

\* The view is connected with an active scene, and a property of another
\* scene's reader changed without reaching the view.
C19_Witness ==
    /\ viewConnected
    /\ activeScene # 0
    /\ \E s \in Scenes : s # activeScene /\ readerIns[s].visible
    /\ viewStep = ViewStep("visible", FALSE)

(* C20: the scene's subscriptions are symmetrical: while the scene exists  *)
(* it holds a "bounding-box" listener on a model from the model's add      *)
(* event to its remove event, and after the scene's dispose() it holds no  *)
(* listener on the graph's model set nor on any model that is still a      *)
(* member, so that no model event invokes the disposed scene.              *)
C20_SubscriptionsSymmetrical ==
    /\ (sceneEvent.ev = "add" /\ sceneEvent.handled) =>
          sceneEvent.model \in boxListeners
    /\ (sceneEvent.ev = "remove" /\ sceneEvent.handled) =>
          sceneEvent.model \notin boxListeners
    /\ sceneState = "disposed" =>
          /\ ~graphListener
          /\ boxListeners \cap graphModels = {}
          /\ ~sceneEvent.handled \/ sceneEvent.ev = "dispose"

(* C21: dispose(), toData(), toString(), findAsset() and findAssets()      *)
(* leave id, usage, quality, the asset list, model and boundingBox as they *)
(* were, and no step of load() changes id, usage, quality or the asset     *)
(* list.                                                                   *)
ReadingOps == {"dispose", "toData", "toString", "findAsset", "findAssets"}

LoadOps == {"load", "modelLoaded", "loadFailed", "geometryLoaded",
            "textureLoaded", "textureFailed"}

C21_OnlyLoadAndAddAssetMutate ==
    /\ [][(step'.op \in ReadingOps) =>
            UNCHANGED <<id, usage, quality, assets, model, boundingBox>>]_vars
    /\ [][(step'.op \in LoadOps) =>
            UNCHANGED <<id, usage, quality, assets>>]_vars

\* dispose() ran on a Derivative that holds a loaded mesh with its assets.
C21_Witness ==
    /\ step.op = "dispose"
    /\ model.kind # "null"
    /\ model.hasMesh
    /\ assets # <<>>
    /\ ~boundingBox.empty

(* C22: addAsset with a non-empty uri appends exactly one Asset with the   *)
(* given uri and type at the end of the asset list, leaves the assets that *)
(* were there and their order as they were, leaves model and boundingBox   *)
(* as they were, and records a mapType on the new asset only when the type *)
(* is the texture type and a mapType was given (then the given one).       *)
C22_AddAssetAppendsOne ==
    [][(step'.op = "addAsset" /\ ~step'.threw) =>
        LET last == assets'[Len(assets')] IN
        /\ step'.uri # ""
        /\ Len(assets') = Len(assets) + 1
        /\ \A i \in 1..Len(assets) : assets'[i] = assets[i]
        /\ last.uri = step'.uri
        /\ last.type = step'.args[1]
        /\ last.mapType # undefined =>
              /\ step'.args[1] = AssetType("Texture")
              /\ step'.args[2] # undefined
              /\ last.mapType = step'.args[2]
        /\ model' = model
        /\ boundingBox' = boundingBox]_vars

\* A texture asset with a map type was appended to a list that already had
\* assets, for a Derivative that holds a model.
C22_Witness ==
    /\ step.op = "addAsset"
    /\ ~step.threw
    /\ Len(assets) >= 2
    /\ step.args = <<AssetType("Texture"), MapType("Color")>>
    /\ assets[Len(assets)].mapType = MapType("Color")
    /\ model.kind # "null"

(* C23: authoring and loading agree on which assets are textures: when    *)
(* load() takes the geometry path, every asset on which addAsset recorded  *)
(* a mapType is among the assets load() requests from the texture loader,  *)
(* and every asset load() requests as a texture has a type on which        *)
(* addAsset records a mapType.                                             *)
RecordsMapType(type) ==
    addAsset(<<>>, Uris[1], type, MapType("Color")).assets[1].mapType # undefined

C23_AuthoringAndLoadingAgree ==
    (step.op = "load" /\ GeometryPath) =>
        /\ \A i \in 1..Len(assets) :
              (assets[i].type = AssetType("Texture")
                  /\ assets[i].mapType # undefined) =>
                 \E k \in 1..Len(imageAssets) : imageAssets[k] = assets[i]
        /\ \A k \in 1..Len(imageAssets) : RecordsMapType(imageAssets[k].type)

(* C24: constructing a Derivative never fails and yields the initial       *)
(* state: for any usage and quality, with asset data given or omitted, the *)
(* new Derivative has one Asset per given data entry in order (none when   *)
(* the asset data is omitted), a null model and an empty boundingBox.      *)
C24_ConstructorNeverFails ==
    step.op = "constructor" =>
        LET arg == step.args[3] IN
        /\ ~step.threw
        /\ usage = step.args[1]
        /\ quality = step.args[2]
        /\ Len(assets) = Len(arg.assetData)
        /\ \A i \in 1..Len(assets) : AssetToData(assets[i]) = arg.assetData[i]
        /\ model = NullModel
        /\ boundingBox.empty

(* C25: in every state of a document view, activeScene is non-null only if *)
(* activeDocument is non-null and is then that document's setup; while     *)
(* connected activeDocument is the provider's active document; after       *)
(* disconnected both are null; and whenever one of them changes the        *)
(* onActiveDocument / onActiveFeatures hook is called with the value held  *)
(* before as previous and the new value as next.                           *)
C25_ActiveState ==
    /\ activeScene # 0 => activeDocument # 0
    /\ activeDocument # 0 => activeScene = Setup(activeDocument)
    /\ viewConnected => activeDocument = providerActive
    /\ ~viewConnected => (activeDocument = 0 /\ activeScene = 0)

Called(hooks, call) == \E i \in 1..Len(hooks) : hooks[i] = call

C25_ActiveDocumentAndScene ==
    /\ []C25_ActiveState
    /\ [][(activeDocument' # activeDocument) =>
            Called(viewStep'.hooks,
                   Hook("onActiveDocument", activeDocument, activeDocument'))]_vars
    /\ [][(activeScene' # activeScene) =>
            Called(viewStep'.hooks,
                   Hook("onActiveFeatures", activeScene, activeScene'))]_vars

\* An active-document event moved a connected view from one document with
\* a scene to another one with a scene.
C25_Witness ==
    /\ viewConnected
    /\ viewStep.ev = "active-component"
    /\ viewStep.reached
    /\ \E h \in {viewStep.hooks[2]} :
          h.previous # 0 /\ h.next # 0 /\ h.next = activeScene

====
